---------------------------- MODULE Spec2Model ----------------------------
(***************************************************************************)
(* State-machine model of src/indicators.py: the fleet supervisor (main,   *)
(* signal_handler), the worker threads (run_bot_thread, BotInstance.run,   *)
(* poll_updates, handle_update and the three command handlers, cleanup)    *)
(* and the simulation tasks (start_simulation, stop_simulation,            *)
(* simulate_loop).                                                         *)
(*                                                                         *)
(* Scheduling.  Every worker thread owns one asyncio event loop.  The      *)
(* worker's main coroutine and its simulation tasks are coroutines of that *)
(* loop: one of them runs at a time, from one `await` that suspends to the *)
(* next.  An action of this model is one such run.  A simulation task can  *)
(* only run while the main coroutine is suspended (wpc[w] \in AwaitPcs).   *)
(* Callbacks queued with call_soon (the first step of a task made by       *)
(* create_task, the wake-up of a task whose cancel() was requested) are in *)
(* the loop's ready queue before the main coroutine's own I/O can          *)
(* complete, so the main coroutine resumes only when no such callback is   *)
(* pending (MayResume).  Completion of network calls and of timers is      *)
(* decided by the environment.  Worker threads, the supervisor and the     *)
(* signal handler are separate threads and interleave freely.              *)
(*                                                                         *)
(* The process exit that follows signal_handler (sys.exit after a sleep)   *)
(* is not modelled: the model follows every loop until it ends by itself.  *)
(***************************************************************************)
EXTENDS Integers, Sequences, FiniteSets, TLC

\* ------------------------------------------------------------------ bounds
\* Updates the Bot API server creates over a run, all workers together.
MaxUpdates == 3
\* Consecutive get_updates failures followed by the model.
MaxFails == 2
\* update_id of the first update the server creates for a bot.
FirstUpdateId == 5
\* Updates the server creates over a run of a fleet of two workers, both
\* workers together.
FleetUpdates == 2
\* Consecutive get_updates failures followed by the model in a fleet of two.
FleetFails == 1

\* ------------------------------------------------------------- parameters
\* Worker slots: zip(tokens, actions) of main().
Workers == {1, 2}
\* Chat ids seen in updates.
Chats == {41, 42}
\* message_id values the server returns for a sent message.
MsgIds == {7, 8}
\* Absent key of BotInstance.simulations.
NoTask == 0

VARIABLES
    ntokens,      \* len(BOT_TOKENS): the worker threads main() starts
    mainPc,       \* position of main(): "run", "exiting", "exited"
    shutdown,     \* shutdown_signal.is_set()
    wpc,          \* wpc[w]: position of worker w's main coroutine
    running,      \* running[w]: BotInstance.running
    offset,       \* offset[w]: BotInstance.offset
    simulations,  \* simulations[w][c]: task registered for chat c, or NoTask
    tasks,        \* tasks[w]: the tasks made by create_task, in creation order:
                  \* chat, st (position in simulate_loop), cancel (a
                  \* cancellation was requested) and late (the shutdown flag
                  \* was set when the task was made)
    gathered,     \* gathered[w]: tasks cleanup() awaits in asyncio.gather
    updates,      \* updates[w]: what the for loop has yet to take of the
                  \* list get_updates returned
    batchLast,    \* batchLast[w]: update_id of the last update of that list
    batchErr,     \* batchErr[w]: a dispatch of that list raised an exception
    loc,          \* loc[w]: locals of the running handler: chat, and mid, the
                  \* message_id argument of the edit_message_text in flight
    nfail,        \* nfail[w]: consecutive get_updates failures
    srvPending,   \* srvPending[w]: updates the server holds for the offset
                  \* the worker would send now (see Unconfirmed)
    srvNext,      \* srvNext[w]: update_id of the next update the server creates
    dispatched,   \* dispatched[w]: update_ids handed to handle_update, in order
    ended,        \* ended[w][c]: the last command handled for c was /end
    ev            \* what the last step did

vars == <<ntokens, mainPc, shutdown, wpc, running, offset, simulations, tasks,
          gathered, updates, batchLast, batchErr, loc, nfail, srvPending,
          srvNext, dispatched, ended, ev>>

\* ----------------------------------------------------------------- helpers
Ev(op, w, c, t, x) == [op |-> op, w |-> w, chat |-> c, task |-> t, x |-> x]

NoEv == Ev("none", 0, 0, NoTask, 0)

Last(s) == s[Len(s)]

RECURSIVE SumCreated(_, _)
SumCreated(S, f) ==
    IF S = {} THEN 0
    ELSE LET w == CHOOSE x \in S : TRUE
         IN (f[w] - FirstUpdateId) + SumCreated(S \ {w}, f)

\* Updates the server may still create within the bound.
Budget ==
    (IF ntokens = 1 THEN MaxUpdates ELSE FleetUpdates)
        - SumCreated(Workers, srvNext)

\* Consecutive get_updates failures still followed within the bound.
FailBound == IF ntokens = 1 THEN MaxFails ELSE FleetFails

\* Positions at which the main coroutine is suspended in an await.
AwaitPcs == {"init", "fetch", "idle_sleep", "backoff", "start_photo",
             "start_fallback", "end_reply", "ping_send", "ping_edit", "gather"}

TaskIds(w) == 1..Len(tasks[w])

\* Where a task is suspended in asyncio.sleep: line 371 after a send that
\* returned, lines 373 and 375 after one that raised.
SleepSts == {"sleeping", "retry_sleep"}

Live(t) == t.st \in {"created", "sending"} \cup SleepSts

\* A call_soon callback of task t is in the ready queue: its first step, or
\* the delivery of a requested cancellation.
Ready(t) == t.st = "created" \/ (t.cancel /\ Live(t))

MayResume(w) == \A i \in TaskIds(w) : ~Ready(tasks[w][i])

\* Task.cancel(): a no-op on a task that is done.
Cancel(t) == IF Live(t) THEN [t EXCEPT !.cancel = TRUE] ELSE t

\* -------------------------------------------------------- text of a message
TStart == <<"/", "s", "t", "a", "r", "t">>
TEnd == <<"/", "e", "n", "d">>
TPing == <<"/", "p", "i", "n", "g">>
THi == <<"h", "i">>
\* A command addressed to the bot by name, as sent in groups.
TPingAt == TPing \o <<"@", "b">>

StartsWith(text, prefix) ==
    /\ Len(text) >= Len(prefix)
    /\ SubSeq(text, 1, Len(prefix)) = prefix

\* An inbound update: form is "message" for one that carries a message,
\* "other" for one without (update.message is None) and "malformed" for one
\* Update.de_json raises on.
Shape(form, text, ctype, c) ==
    [form |-> form, text |-> text, ctype |-> ctype, chat |-> c]

\* The updates the server creates in this model.
Shapes ==
    {Shape("message", t, "private", c) : t \in {TStart, TEnd, TPing},
                                         c \in Chats}
    \cup {Shape("malformed", <<>>, "private", 41),
          Shape("other", <<>>, "private", 41),
          Shape("message", THi, "group", 41),
          Shape("message", TStart, "channel", 41),
          Shape("message", <<>>, "private", 41),
          Shape("message", TPingAt, "supergroup", 41)}

\* The updates the server creates for the workers of a fleet of two.
FleetShapes == {Shape("message", t, "private", 41) : t \in {TStart, TEnd, TPing}}

\* The updates that can arrive in the run.
Arrivals == IF ntokens = 1 THEN Shapes ELSE FleetShapes

\* handle_update without the chat type test of line 167.
ClassifyAnyChat(u) ==
    IF u.form # "message" THEN "ignore"
    ELSE IF u.text = <<>> THEN "ignore"
    ELSE IF StartsWith(u.text, TStart) THEN "start"
    ELSE IF StartsWith(u.text, TEnd) THEN "end"
    ELSE IF StartsWith(u.text, TPing) THEN "ping"
    ELSE "ignore"

\* handle_update, lines 158-180: the handler an update is routed to.
Classify(u) ==
    IF u.form # "message" THEN "ignore"
    ELSE IF u.text = <<>> THEN "ignore"
    ELSE IF u.ctype \notin {"private", "group", "supergroup"} THEN "ignore"
    ELSE IF StartsWith(u.text, TStart) THEN "start"
    ELSE IF StartsWith(u.text, TEnd) THEN "end"
    ELSE IF StartsWith(u.text, TPing) THEN "ping"
    ELSE "ignore"

\* Exception raised by Update.de_json (line 158), inside handle_update's try.
DecodeError(u) == IF u.form = "malformed" THEN "Exception" ELSE "none"

\* handle_update without its except clause.
CaughtInHandleUpdateNothing(exc) == FALSE

\* `except Exception` of handle_update (lines 182-183).
CaughtInHandleUpdate(exc) == exc = "Exception"

\* poll_updates without its except clause.
CaughtInPollUpdatesNothing(exc) == FALSE

\* `except Exception` of poll_updates (lines 398-400).
CaughtInPollUpdates(exc) == exc = "Exception"

\* simulate_loop with line 374's `except Exception` missing.
CaughtInSimulateLoopNetworkOnly(exc) == exc = "NetworkError"

\* The except clauses inside the while loop of simulate_loop (lines 372-375):
\* "NetworkError" stands for NetworkError and BadRequest, "Exception" for any
\* other exception.
CaughtInSimulateLoop(exc) == exc \in {"NetworkError", "Exception"}

\* An offset that stays on the update taken.
AdvanceOffsetStale(u) == u.id

\* poll_updates line 392.
AdvanceOffset(u) == u.id + 1

\* bot_main calling run() whatever initialize() returned.
EntersRunAlways(ok) == TRUE

\* bot_main line 438: run() is called only if initialize() returned True.
EntersRun(ok) == ok

\* An edit that targets a message id of its own choice.
EditTargetFirst(ping_message) == 7

\* handle_ping_command line 337: message_id=ping_message.message_id.
EditTarget(ping_message) == ping_message.message_id

\* A loop condition that does not read the shutdown flag.
LoopCondRunningOnly(w) == running[w]

\* Loop condition of simulate_loop and poll_updates.
LoopCond(w) == ~shutdown /\ running[w]

\* ------------------------------------------------------------ registry
\* start_simulation(chat_id): the tasks and the registry it leaves.
start_simulation(w, c) ==
    LET old == simulations[w][c]
        ts == IF old # NoTask
              THEN [tasks[w] EXCEPT ![old] = Cancel(@)]
              ELSE tasks[w]
        new == [chat |-> c, st |-> "created", cancel |-> FALSE,
                late |-> shutdown]
    IN [tasks |-> Append(ts, new),
        simulations |-> [simulations[w] EXCEPT ![c] = Len(ts) + 1],
        task |-> Len(ts) + 1]

\* stop_simulation without the pop of line 361.
stop_simulation_keep(w, c) ==
    LET old == simulations[w][c]
    IN IF old # NoTask
       THEN [tasks |-> [tasks[w] EXCEPT ![old] = Cancel(@)],
             simulations |-> simulations[w],
             ret |-> TRUE]
       ELSE [tasks |-> tasks[w], simulations |-> simulations[w], ret |-> FALSE]

\* stop_simulation that reports a stop whatever the registry holds.
stop_simulation_always(w, c) ==
    LET old == simulations[w][c]
    IN [tasks |-> IF old # NoTask THEN [tasks[w] EXCEPT ![old] = Cancel(@)]
                  ELSE tasks[w],
        simulations |-> [simulations[w] EXCEPT ![c] = NoTask],
        ret |-> TRUE]

\* stop_simulation(chat_id): the tasks and the registry it leaves, and its
\* return value.
stop_simulation(w, c) ==
    LET old == simulations[w][c]
    IN IF old # NoTask
       THEN [tasks |-> [tasks[w] EXCEPT ![old] = Cancel(@)],
             simulations |-> [simulations[w] EXCEPT ![c] = NoTask],
             ret |-> TRUE]
       ELSE [tasks |-> tasks[w], simulations |-> simulations[w], ret |-> FALSE]

\* `finally: self.simulations.pop(chat_id, None)` of simulate_loop.
PopOnExit(w, c) == [simulations[w] EXCEPT ![c] = NoTask]

\* One registry that every BotInstance shares.
SetRegistryShared(w, reg) == [v \in Workers |-> reg]

\* A write to self.simulations: the dict __init__ (line 135) made for this
\* BotInstance.
SetRegistry(w, reg) == [simulations EXCEPT ![w] = reg]

\* ------------------------------------------------------------------ Init
InitWith(n) ==
    /\ ntokens = n
    /\ mainPc = "run"
    /\ shutdown = FALSE
    /\ wpc = [w \in Workers |-> "unstarted"]
    /\ running = [w \in Workers |-> FALSE]
    /\ offset = [w \in Workers |-> 0]
    /\ simulations = [w \in Workers |-> [c \in Chats |-> NoTask]]
    /\ tasks = [w \in Workers |-> <<>>]
    /\ gathered = [w \in Workers |-> {}]
    /\ updates = [w \in Workers |-> <<>>]
    /\ batchLast = [w \in Workers |-> 0]
    /\ batchErr = [w \in Workers |-> FALSE]
    /\ loc = [w \in Workers |-> [chat |-> 0, mid |-> 0]]
    /\ nfail = [w \in Workers |-> 0]
    /\ srvPending = [w \in Workers |-> <<>>]
    /\ srvNext = [w \in Workers |-> FirstUpdateId]
    /\ dispatched = [w \in Workers |-> <<>>]
    /\ ended = [w \in Workers |-> [c \in Chats |-> FALSE]]
    /\ ev = NoEv

\* One configured token: a fleet of one worker.
Init == InitWith(1)


\* ------------------------------------------------------------ supervisor
\* main(), lines 533-544: the worker threads are started in order.
ThreadStart(w) ==
    /\ mainPc = "run"
    /\ w <= ntokens
    /\ wpc[w] = "unstarted"
    /\ \A v \in Workers : v < w => wpc[v] # "unstarted"
    /\ wpc' = [wpc EXCEPT ![w] = "init"]
    /\ ev' = Ev("thread_start", w, 0, NoTask, 0)
    /\ UNCHANGED <<ntokens, mainPc, shutdown, running, offset, simulations,
                   tasks, gathered, updates, batchLast, batchErr, loc, nfail,
                   srvPending, srvNext, dispatched, ended>>

\* signal_handler: sets the flag; it can run again while it sleeps.
SignalHandler ==
    /\ mainPc \in {"run", "exiting"}
    /\ shutdown' = TRUE
    /\ mainPc' = "exiting"
    /\ ev' = Ev("signal", 0, 0, NoTask, shutdown)
    /\ UNCHANGED <<ntokens, wpc, running, offset, simulations, tasks,
                   gathered, updates, batchLast, batchErr, loc, nfail,
                   srvPending, srvNext, dispatched, ended>>

\* main(), lines 555-559: the finally block sets the flag once more.
MainFinally ==
    /\ mainPc = "exiting"
    /\ shutdown' = TRUE
    /\ mainPc' = "exited"
    /\ ev' = Ev("main_finally", 0, 0, NoTask, shutdown)
    /\ UNCHANGED <<ntokens, wpc, running, offset, simulations, tasks,
                   gathered, updates, batchLast, batchErr, loc, nfail,
                   srvPending, srvNext, dispatched, ended>>

\* ------------------------------------------------------------ worker
\* Where poll_updates goes when a handler returns: to the next update of the
\* list, or past the for loop (the list was not empty) to the loop condition.
NextPc(rest) == IF rest # <<>> THEN "batch" ELSE "poll"

\* A server that returns again what was confirmed.
UnconfirmedOrNot(pending, off) == pending

\* The server forgets an update once get_updates is called with a higher
\* offset.  The offset is sent nowhere else, so the updates it holds at the
\* next call are those at or above the offset the worker has now.
Unconfirmed(pending, off) == SelectSeq(pending, LAMBDA u : u.id >= off)

\* bot_main: initialize() returns; on success run() sets running and enters
\* poll_updates, otherwise the thread ends.
InitializeReturn(w) ==
    /\ wpc[w] = "init"
    /\ \E ok \in BOOLEAN :
        /\ wpc' = [wpc EXCEPT ![w] = IF EntersRun(ok) THEN "poll" ELSE "exited"]
        /\ running' = [running EXCEPT ![w] = EntersRun(ok)]
        /\ ev' = Ev("initialize", w, 0, NoTask, ok)
    /\ UNCHANGED <<ntokens, mainPc, shutdown, offset, simulations, tasks,
                   gathered, updates, batchLast, batchErr, loc, nfail,
                   srvPending, srvNext, dispatched, ended>>

\* poll_updates line 383: the loop condition; get_updates is called with the
\* current offset, or the loop is left and run() goes to cleanup().
PollHead(w) ==
    /\ wpc[w] = "poll"
    /\ wpc' = [wpc EXCEPT ![w] = IF LoopCond(w) THEN "fetch" ELSE "cleanup"]
    /\ ev' = Ev("poll", w, 0, NoTask, LoopCond(w))
    /\ UNCHANGED <<ntokens, mainPc, shutdown, running, offset, simulations,
                   tasks, gathered, updates, batchLast, batchErr, loc, nfail,
                   srvPending, srvNext, dispatched, ended>>

\* get_updates returns.  The server forgets the updates below the offset,
\* adds the n updates that arrived meanwhile and returns what it holds.
FetchReturn(w) ==
    /\ wpc[w] = "fetch"
    /\ MayResume(w)
    /\ \E n \in 0..Budget : \E new \in [1..n -> Arrivals] :
        LET kept == Unconfirmed(srvPending[w], offset[w])
            arrived == [i \in 1..n |->
                          [id |-> srvNext[w] + i - 1,
                           form |-> new[i].form,
                           text |-> new[i].text,
                           ctype |-> new[i].ctype,
                           chat |-> new[i].chat]]
            got == kept \o arrived
        IN /\ srvPending' = [srvPending EXCEPT ![w] = got]
           /\ srvNext' = [srvNext EXCEPT ![w] = @ + n]
           /\ updates' = [updates EXCEPT ![w] = got]
           /\ batchLast' = [batchLast EXCEPT ![w] =
                                IF got = <<>> THEN 0 ELSE Last(got).id]
           /\ batchErr' = [batchErr EXCEPT ![w] = FALSE]
           /\ wpc' = [wpc EXCEPT ![w] = IF got = <<>> THEN "idle_sleep"
                                        ELSE "batch"]
           /\ ev' = Ev("fetch", w, 0, NoTask, Len(got))
    /\ nfail' = [nfail EXCEPT ![w] = 0]
    /\ UNCHANGED <<ntokens, mainPc, shutdown, running, offset, simulations,
                   tasks, gathered, loc, dispatched, ended>>

\* get_updates raises: lines 398-400 sleep 5 s, or the exception leaves
\* poll_updates and run() goes to cleanup().
FetchFail(w) ==
    /\ wpc[w] = "fetch"
    /\ MayResume(w)
    /\ nfail[w] < FailBound
    /\ nfail' = [nfail EXCEPT ![w] = @ + 1]
    /\ wpc' = [wpc EXCEPT ![w] = IF CaughtInPollUpdates("Exception")
                                 THEN "backoff" ELSE "cleanup"]
    /\ ev' = Ev("fetch_fail", w, 0, NoTask, nfail[w] + 1)
    /\ UNCHANGED <<ntokens, mainPc, shutdown, running, offset, simulations,
                   tasks, gathered, updates, batchLast, batchErr, loc,
                   srvPending, srvNext, dispatched, ended>>

\* asyncio.sleep(1) after an empty list, asyncio.sleep(5) after an error.
SleepReturn(w) ==
    /\ wpc[w] \in {"idle_sleep", "backoff"}
    /\ MayResume(w)
    /\ wpc' = [wpc EXCEPT ![w] = "poll"]
    /\ ev' = Ev("sleep_return", w, 0, NoTask, 0)
    /\ UNCHANGED <<ntokens, mainPc, shutdown, running, offset, simulations,
                   tasks, gathered, updates, batchLast, batchErr, loc, nfail,
                   srvPending, srvNext, dispatched, ended>>

\* The for loop of poll_updates takes the next update: the offset is set,
\* then handle_update runs up to the first await of the handler it picks.
\* An exception that leaves handle_update ends the for loop.
Dispatch(w) ==
    /\ wpc[w] = "batch"
    /\ updates[w] # <<>>
    /\ LET u == Head(updates[w])
           rest == Tail(updates[w])
           c == u.chat
           exc == DecodeError(u)
           kind == IF exc # "none" THEN "raise" ELSE Classify(u)
           escapes == kind = "raise" /\ ~CaughtInHandleUpdate(exc)
           stop == stop_simulation(w, c)
       IN /\ offset' = [offset EXCEPT ![w] = AdvanceOffset(u)]
          /\ srvPending' = [srvPending EXCEPT ![w] =
                               Unconfirmed(@, AdvanceOffset(u))]
          /\ updates' = [updates EXCEPT ![w] = IF escapes THEN <<>> ELSE rest]
          /\ batchErr' = [batchErr EXCEPT ![w] = @ \/ kind = "raise"]
          /\ dispatched' = [dispatched EXCEPT ![w] = Append(@, u.id)]
          /\ wpc' = [wpc EXCEPT ![w] =
                CASE kind = "raise" ->
                        IF CaughtInHandleUpdate(exc) THEN NextPc(rest)
                        ELSE IF CaughtInPollUpdates(exc) THEN "backoff"
                        ELSE "cleanup"
                  [] kind = "ignore" -> NextPc(rest)
                  [] kind = "start" -> "start_photo"
                  [] kind = "end" -> "end_reply"
                  [] kind = "ping" -> "ping_send"]
          /\ loc' = [loc EXCEPT ![w] =
                IF kind \in {"start", "end", "ping"}
                THEN [chat |-> c, mid |-> 0] ELSE @]
          /\ tasks' = [tasks EXCEPT ![w] =
                IF kind = "end" THEN stop.tasks ELSE @]
          /\ simulations' = IF kind = "end"
                             THEN SetRegistry(w, stop.simulations)
                             ELSE simulations
          /\ ended' = [ended EXCEPT ![w] =
                IF kind = "start" THEN [@ EXCEPT ![c] = FALSE] ELSE @]
          /\ ev' = Ev("dispatch", w, c, simulations[w][c],
                      [id |-> u.id, kind |-> kind, text |-> u.text,
                       ctype |-> u.ctype,
                       ret |-> IF kind = "end" THEN stop.ret ELSE FALSE])
    /\ UNCHANGED <<ntokens, mainPc, shutdown, running, gathered, batchLast,
                   nfail, srvNext>>

\* handle_start_command: send_photo returns and start_simulation runs
\* (lines 233-243), or it raises and the fallback send_message is awaited.
PhotoReturn(w) ==
    /\ wpc[w] = "start_photo"
    /\ MayResume(w)
    /\ \E ok \in BOOLEAN :
        LET c == loc[w].chat
            r == start_simulation(w, c)
        IN IF ok
           THEN /\ tasks' = [tasks EXCEPT ![w] = r.tasks]
                /\ simulations' = SetRegistry(w, r.simulations)
                /\ wpc' = [wpc EXCEPT ![w] = NextPc(updates[w])]
                /\ loc' = [loc EXCEPT ![w] = [chat |-> 0, mid |-> 0]]
                /\ ev' = Ev("start_return", w, c, r.task, simulations[w][c])
           ELSE /\ wpc' = [wpc EXCEPT ![w] = "start_fallback"]
                /\ ev' = Ev("photo_fail", w, c, NoTask, 0)
                /\ UNCHANGED <<tasks, simulations, loc>>
    /\ UNCHANGED <<ntokens, mainPc, shutdown, running, offset, gathered,
                   updates, batchLast, batchErr, nfail, srvPending, srvNext,
                   dispatched, ended>>

\* handle_start_command, lines 259-267: the fallback send_message returns and
\* start_simulation runs, or it raises and the error is logged.
FallbackReturn(w) ==
    /\ wpc[w] = "start_fallback"
    /\ MayResume(w)
    /\ \E ok \in BOOLEAN :
        LET c == loc[w].chat
            r == start_simulation(w, c)
        IN /\ tasks' = [tasks EXCEPT ![w] = IF ok THEN r.tasks ELSE @]
           /\ simulations' = IF ok THEN SetRegistry(w, r.simulations)
                              ELSE simulations
           /\ ev' = Ev("start_return", w, c, IF ok THEN r.task ELSE NoTask,
                       simulations[w][c])
    /\ wpc' = [wpc EXCEPT ![w] = NextPc(updates[w])]
    /\ loc' = [loc EXCEPT ![w] = [chat |-> 0, mid |-> 0]]
    /\ UNCHANGED <<ntokens, mainPc, shutdown, running, offset, gathered,
                   updates, batchLast, batchErr, nfail, srvPending, srvNext,
                   dispatched, ended>>

\* handle_end_command, lines 305-314: the reply send returns or raises.
EndReplyReturn(w) ==
    /\ wpc[w] = "end_reply"
    /\ MayResume(w)
    /\ \E ok \in BOOLEAN : ev' = Ev("end_return", w, loc[w].chat, NoTask, ok)
    /\ ended' = [ended EXCEPT ![w] = [@ EXCEPT ![loc[w].chat] = TRUE]]
    /\ wpc' = [wpc EXCEPT ![w] = NextPc(updates[w])]
    /\ loc' = [loc EXCEPT ![w] = [chat |-> 0, mid |-> 0]]
    /\ UNCHANGED <<ntokens, mainPc, shutdown, running, offset, simulations,
                   tasks, gathered, updates, batchLast, batchErr, nfail,
                   srvPending, srvNext, dispatched>>

\* handle_ping_command, lines 322-326: the placeholder send returns a
\* message and edit_message_text is called for it, or the send raises and
\* the handler ends.
PingSendReturn(w) ==
    /\ wpc[w] = "ping_send"
    /\ MayResume(w)
    /\ \/ \E m \in MsgIds :
            /\ loc' = [loc EXCEPT ![w].mid = EditTarget([message_id |-> m])]
            /\ wpc' = [wpc EXCEPT ![w] = "ping_edit"]
            /\ ev' = Ev("ping_sent", w, loc[w].chat, NoTask, m)
       \/ /\ loc' = [loc EXCEPT ![w] = [chat |-> 0, mid |-> 0]]
          /\ wpc' = [wpc EXCEPT ![w] = NextPc(updates[w])]
          /\ ev' = Ev("ping_fail", w, loc[w].chat, NoTask, 0)
    /\ UNCHANGED <<ntokens, mainPc, shutdown, running, offset, simulations,
                   tasks, gathered, updates, batchLast, batchErr, nfail,
                   srvPending, srvNext, dispatched, ended>>

\* handle_ping_command, lines 335-346: edit_message_text returns or raises.
PingEditReturn(w) ==
    /\ wpc[w] = "ping_edit"
    /\ MayResume(w)
    /\ \E ok \in BOOLEAN :
        ev' = Ev("ping_edit", w, loc[w].chat, NoTask, loc[w].mid)
    /\ wpc' = [wpc EXCEPT ![w] = NextPc(updates[w])]
    /\ loc' = [loc EXCEPT ![w] = [chat |-> 0, mid |-> 0]]
    /\ UNCHANGED <<ntokens, mainPc, shutdown, running, offset, simulations,
                   tasks, gathered, updates, batchLast, batchErr, nfail,
                   srvPending, srvNext, dispatched, ended>>

\* cleanup(), lines 416-423: running is cleared, every registered task is
\* cancelled and, if the registry is not empty, gathered.
Cleanup(w) ==
    /\ wpc[w] = "cleanup"
    /\ LET reg == {simulations[w][c] : c \in Chats} \ {NoTask}
       IN /\ tasks' = [tasks EXCEPT ![w] =
                [i \in TaskIds(w) |->
                    IF i \in reg THEN Cancel(tasks[w][i]) ELSE tasks[w][i]]]
          /\ gathered' = [gathered EXCEPT ![w] = reg]
          /\ wpc' = [wpc EXCEPT ![w] = IF reg # {} THEN "gather" ELSE "exited"]
    /\ running' = [running EXCEPT ![w] = FALSE]
    /\ ev' = Ev("cleanup", w, 0, NoTask, 0)
    /\ UNCHANGED <<ntokens, mainPc, shutdown, offset, simulations, updates,
                   batchLast, batchErr, loc, nfail, srvPending, srvNext,
                   dispatched, ended>>

\* asyncio.gather returns once every gathered task is done; run(), bot_main
\* and run_bot_thread then end and the event loop is closed.
GatherReturn(w) ==
    /\ wpc[w] = "gather"
    /\ MayResume(w)
    /\ \A i \in gathered[w] : tasks[w][i].st = "done"
    /\ wpc' = [wpc EXCEPT ![w] = "exited"]
    /\ ev' = Ev("gather_return", w, 0, NoTask, 0)
    /\ UNCHANGED <<ntokens, mainPc, shutdown, running, offset, simulations,
                   tasks, gathered, updates, batchLast, batchErr, loc, nfail,
                   srvPending, srvNext, dispatched, ended>>

\* ------------------------------------------------------------ simulate_loop
\* What the rest of the model leaves alone in a step of a task of w.
TaskFrame ==
    UNCHANGED <<ntokens, mainPc, shutdown, wpc, running, offset, gathered,
                updates, batchLast, batchErr, loc, nfail, srvPending, srvNext,
                dispatched, ended>>

\* Top of the while loop (line 368): the next send_chat_action is called, or
\* the loop ends and the finally block pops the chat's entry.
LoopHead(w, i) ==
    LET c == tasks[w][i].chat
    IN IF LoopCond(w)
       THEN /\ tasks' = [tasks EXCEPT ![w][i].st = "sending"]
            /\ UNCHANGED simulations
            /\ ev' = Ev("send", w, c, i, tasks[w][i].st)
       ELSE /\ tasks' = [tasks EXCEPT ![w][i].st = "done"]
            /\ simulations' = SetRegistry(w, PopOnExit(w, c))
            /\ ev' = Ev("task_exit", w, c, i, "loop")

\* First step of a task.  A task cancelled before it ran gets the
\* CancelledError before the coroutine's body starts: no finally block runs.
TaskBegin(w, i) ==
    /\ wpc[w] \in AwaitPcs
    /\ i \in TaskIds(w)
    /\ tasks[w][i].st = "created"
    /\ IF tasks[w][i].cancel
       THEN /\ tasks' = [tasks EXCEPT ![w][i].st = "done"]
            /\ UNCHANGED simulations
            /\ ev' = Ev("task_exit", w, tasks[w][i].chat, i, "unstarted")
       ELSE LoopHead(w, i)
    /\ TaskFrame

\* send_chat_action returns or raises (lines 370-375): the task sleeps, in
\* line 371 or in the except clause that caught the exception.  An exception
\* no clause of the while loop catches leaves the loop: line 376 does not
\* catch it either and the finally block pops the chat's entry.
TaskSendReturn(w, i) ==
    /\ wpc[w] \in AwaitPcs
    /\ i \in TaskIds(w)
    /\ tasks[w][i].st = "sending"
    /\ ~tasks[w][i].cancel
    /\ \E res \in {"ok", "NetworkError", "Exception"} :
        IF res = "ok" \/ CaughtInSimulateLoop(res)
        THEN /\ tasks' = [tasks EXCEPT ![w][i].st =
                            IF res = "ok" THEN "sleeping" ELSE "retry_sleep"]
             /\ UNCHANGED simulations
             /\ ev' = Ev("send_return", w, tasks[w][i].chat, i, res)
        ELSE /\ tasks' = [tasks EXCEPT ![w][i].st = "done"]
             /\ simulations' = SetRegistry(w, PopOnExit(w, tasks[w][i].chat))
             /\ ev' = Ev("task_exit", w, tasks[w][i].chat, i, "error")
    /\ TaskFrame

\* asyncio.sleep returns: back to the top of the loop.
TaskWake(w, i) ==
    /\ wpc[w] \in AwaitPcs
    /\ i \in TaskIds(w)
    /\ tasks[w][i].st \in SleepSts
    /\ ~tasks[w][i].cancel
    /\ LoopHead(w, i)
    /\ TaskFrame

\* A requested cancellation is delivered at the await the task is suspended
\* in: CancelledError passes `except Exception`, line 376 catches it and the
\* finally block pops the chat's entry.
TaskCancelled(w, i) ==
    /\ wpc[w] \in AwaitPcs
    /\ i \in TaskIds(w)
    /\ tasks[w][i].st \in {"sending"} \cup SleepSts
    /\ tasks[w][i].cancel
    /\ tasks' = [tasks EXCEPT ![w][i].st = "done"]
    /\ simulations' = SetRegistry(w, PopOnExit(w, tasks[w][i].chat))
    /\ ev' = Ev("task_exit", w, tasks[w][i].chat, i, "cancelled")
    /\ TaskFrame

\* ------------------------------------------------------------ specification
WorkerNext(w) ==
    \/ InitializeReturn(w)
    \/ PollHead(w)
    \/ FetchReturn(w)
    \/ FetchFail(w)
    \/ SleepReturn(w)
    \/ Dispatch(w)
    \/ PhotoReturn(w)
    \/ FallbackReturn(w)
    \/ EndReplyReturn(w)
    \/ PingSendReturn(w)
    \/ PingEditReturn(w)
    \/ Cleanup(w)
    \/ GatherReturn(w)

TaskNext(w, i) ==
    \/ TaskBegin(w, i)
    \/ TaskSendReturn(w, i)
    \/ TaskWake(w, i)
    \/ TaskCancelled(w, i)

Next ==
    \/ \E w \in Workers : ThreadStart(w)
    \/ SignalHandler
    \/ MainFinally
    \/ \E w \in Workers : WorkerNext(w)
    \/ \E w \in Workers : \E i \in 1..MaxUpdates : TaskNext(w, i)

Spec == Init /\ [][Next]_vars

\* Every started thread keeps running its coroutines, timers and network
\* calls end, and main() reaches its finally block once it is left.
FairSpec ==
    /\ Spec
    /\ WF_vars(MainFinally)
    /\ \A w \in Workers : WF_vars(WorkerNext(w))
    /\ \A w \in Workers : \A i \in 1..MaxUpdates : WF_vars(TaskNext(w, i))

\* Two configured tokens: main() starts two worker threads, each with its own
\* BotInstance and event loop.
FleetInit == InitWith(2)

FleetSpec == FleetInit /\ [][Next]_vars

\* ------------------------------------------------------------ properties
\* Tasks of worker w for chat c that can still call send_chat_action: made,
\* not done, and with no cancellation requested.
Senders(w, c) ==
    {i \in TaskIds(w) : /\ tasks[w][i].chat = c
                        /\ Live(tasks[w][i])
                        /\ ~tasks[w][i].cancel}

\* C1: for every worker and chat, at most one task that can still send
\* presence actions for the chat exists at any instant.
AtMostOneSender ==
    \A w \in Workers : \A c \in Chats : Cardinality(Senders(w, c)) <= 1

\* C2: when start_simulation replaces a registered task, the old task has
\* terminated before the new one is installed.
RestartAwaitsOldTask ==
    (ev.op = "start_return" /\ ev.task # NoTask /\ ev.x # NoTask)
        => tasks[ev.w][ev.x].st = "done"

\* C3: after /end was handled for a chat, no send_chat_action call for the
\* chat begins until a later /start for it is handled.
NoSendAfterEnd ==
    ev.op = "send" => ~ended[ev.w][ev.chat]

\* C4: stop_simulation returns true iff the registry held an entry for the
\* chat right before the call, and leaves no entry for the chat either way.
StopReturnsWhetherRegistered ==
    (ev.op = "dispatch" /\ ev.x.kind = "end")
        => /\ ev.x.ret = (ev.task # NoTask)
           /\ simulations[ev.w][ev.chat] = NoTask

\* C4 witness: a stop that found a registered task and returned true.
StopOfRegisteredTask ==
    /\ ev.op = "dispatch"
    /\ ev.x.kind = "end"
    /\ ev.task # NoTask
    /\ ev.x.ret

\* C5: when the start handler returns, a task it started is registered for
\* the chat, whatever the reply sends did.
StartAlwaysStartsSimulation ==
    ev.op = "start_return"
        => /\ ev.task # NoTask
           /\ simulations[ev.w][ev.chat] = ev.task

\* Positions of poll_updates inside the for loop over a fetched list.
InBatchPcs == {"batch", "start_photo", "start_fallback", "end_reply",
               "ping_send", "ping_edit"}

\* C6: once the for loop over a fetched list is over, every update of the
\* list was dispatched and the offset is the last update's id plus one, also
\* when a dispatch raised.
OffsetPastBatch ==
    \A w \in Workers :
        (wpc[w] \notin InBatchPcs /\ batchLast[w] # 0)
            => /\ offset[w] = batchLast[w] + 1
               /\ dispatched[w] # <<>>
               /\ Last(dispatched[w]) = batchLast[w]

\* C6 witness: a dispatch of the list raised, a handler ran for a later
\* update of the same list, and the worker is back at the loop condition with
\* the offset past the list.
BatchWithErrorProcessed ==
    /\ ev.op \in {"start_return", "end_return", "ping_edit"}
    /\ wpc[ev.w] = "poll"
    /\ batchErr[ev.w]
    /\ offset[ev.w] = batchLast[ev.w] + 1

\* C7: at the dispatch of an update the offset is already above its id, and
\* the update ids handed to the dispatcher are strictly increasing: arrival
\* order, none twice.
DispatchOnceInOrder ==
    /\ ev.op = "dispatch" => offset[ev.w] > ev.x.id
    /\ \A w \in Workers : \A i, j \in 1..Len(dispatched[w]) :
            i < j => dispatched[w][i] < dispatched[w][j]

\* C7 witness: an update is dispatched after an earlier dispatch of the same
\* list raised.
DispatchAfterFailedDispatch ==
    /\ ev.op = "dispatch"
    /\ batchErr[ev.w]
    /\ ev.x.kind # "raise"
    /\ Len(dispatched[ev.w]) >= 2

\* C8: a get_updates failure leaves the worker in poll_updates with running
\* true and offset, registry and tasks as they were; after the back-off the
\* worker is at the loop condition, from where it fetches again unless the
\* shutdown flag is set.
FetchErrorNotFatal ==
    [][\A w \in Workers :
         /\ (wpc[w] = "fetch" /\ nfail'[w] > nfail[w])
                => /\ wpc'[w] = "backoff"
                   /\ running'[w]
                   /\ offset'[w] = offset[w]
                   /\ simulations'[w] = simulations[w]
                   /\ tasks'[w] = tasks[w]
         /\ (wpc[w] = "backoff" /\ wpc'[w] # "backoff")
                => (wpc'[w] = "poll" /\ running'[w])
         /\ (wpc[w] = "poll" /\ nfail[w] > 0 /\ ~shutdown /\ wpc'[w] # "poll")
                => (wpc'[w] = "fetch" /\ running'[w])]_vars

\* C8 witness: after two consecutive failures the worker fetches again.
FetchingAfterTwoFailures ==
    \E w \in Workers :
        /\ nfail[w] >= 2
        /\ wpc[w] = "fetch"
        /\ running[w]

\* Every polling loop and every simulation task has ended.
AllTerminated ==
    \A w \in Workers :
        /\ wpc[w] \in {"unstarted", "exited"}
        /\ \A i \in TaskIds(w) : ~Live(tasks[w][i])

\* C9: the shutdown flag stays set once set, and once it is set every worker
\* polling loop and every simulation task eventually terminates.
ShutdownTerminatesAll ==
    /\ [][shutdown => shutdown']_vars
    /\ shutdown ~> AllTerminated

\* C10: when a worker thread has exited, none of its simulation tasks is
\* still live.
NoLiveTaskAtExit ==
    \A w \in Workers :
        wpc[w] = "exited" => \A i \in TaskIds(w) : ~Live(tasks[w][i])

\* C11: a send_chat_action that returns or raises leaves the task suspended
\* in a sleep and the registry as it was; a task that wakes from a sleep with
\* the loop condition true sends again; and a task only ends when it was
\* cancelled or when its loop condition (flag clear, worker running) fails.
SendFailureKeepsTask ==
    [][\A w \in Workers : \A i \in TaskIds(w) :
         LET t == tasks[w][i]
             t2 == tasks'[w][i]
         IN /\ (t.st = "sending" /\ ~t.cancel /\ t2.st # "sending")
                    => /\ t2.st \in SleepSts
                       /\ simulations'[w] = simulations[w]
            /\ (t.st \in SleepSts /\ ~t.cancel /\ LoopCond(w) /\ t2.st # t.st)
                    => t2.st = "sending"
            /\ (Live(t) /\ ~Live(t2)) => (t.cancel \/ ~LoopCond(w))]_vars

\* C11 witness: a registered task whose last send raised sends again.
SendAgainAfterFailure ==
    /\ ev.op = "send"
    /\ ev.x = "retry_sleep"
    /\ simulations[ev.w][ev.chat] = ev.task
    /\ tasks[ev.w][ev.task].st = "sending"

\* C12: the registry never maps a chat to a task that has terminated: a task
\* that ends, by whatever path, has removed its own entry.
RegistryHoldsNoDoneTask ==
    \A w \in Workers : \A c \in Chats :
        simulations[w][c] # NoTask => tasks[w][simulations[w][c]].st # "done"

\* C13: the dispatch of /end for a chat with no registry entry gets False
\* from stop_simulation, goes on to the reply, and leaves the worker's
\* registry and every task of the worker (no cancel request) as they were.
EndWithoutSimulationIsNoOp ==
    [][\A w \in Workers :
         (/\ wpc[w] = "batch"
          /\ ev'.op = "dispatch"
          /\ ev'.w = w
          /\ ev'.x.kind = "end"
          /\ simulations[w][ev'.chat] = NoTask)
            => /\ ~ev'.x.ret
               /\ wpc'[w] = "end_reply"
               /\ simulations'[w] = simulations[w]
               /\ tasks'[w] = tasks[w]]_vars

\* C13 witness: /end was dispatched for a chat without an entry while another
\* chat of the worker has a live registered task.
EndOfIdleChatDispatched ==
    /\ ev.op = "dispatch"
    /\ ev.x.kind = "end"
    /\ ev.task = NoTask
    /\ ~ev.x.ret
    /\ wpc[ev.w] = "end_reply"
    /\ \E c \in Chats \ {ev.chat} :
            /\ simulations[ev.w][c] # NoTask
            /\ Live(tasks[ev.w][simulations[ev.w][c]])

\* Positions at the first await of the three command handlers.
HandlerPcs == {"start_photo", "end_reply", "ping_send"}

\* C14: at the dispatch of an update a handler is entered only if the update
\* carries a message with non-empty text from a private, group or supergroup
\* chat; the handler is the one of the first prefix among /start, /end, /ping
\* the text begins with; any other update enters no handler and leaves the
\* worker's registry and tasks unchanged.
DispatchByPrefix ==
    [][\A w \in Workers :
         (wpc[w] = "batch" /\ ev'.op = "dispatch" /\ ev'.w = w) =>
            LET u == Head(updates[w])
                eligible == /\ u.form = "message"
                            /\ Len(u.text) > 0
                            /\ u.ctype \in {"private", "group", "supergroup"}
                want == IF ~eligible THEN "none"
                        ELSE IF StartsWith(u.text, TStart) THEN "start_photo"
                        ELSE IF StartsWith(u.text, TEnd) THEN "end_reply"
                        ELSE IF StartsWith(u.text, TPing) THEN "ping_send"
                        ELSE "none"
            IN IF want = "none"
               THEN /\ wpc'[w] \notin HandlerPcs
                    /\ simulations'[w] = simulations[w]
                    /\ tasks'[w] = tasks[w]
               ELSE /\ wpc'[w] = want
                    /\ loc'[w].chat = u.chat]_vars

\* C14 witness: a command addressed by name in a supergroup entered the ping
\* handler, as the second update dispatched or later.
NamedCommandDispatched ==
    /\ ev.op = "dispatch"
    /\ ev.x.text = TPingAt
    /\ ev.x.ctype = "supergroup"
    /\ wpc[ev.w] = "ping_send"
    /\ loc[ev.w].chat = ev.chat
    /\ Len(dispatched[ev.w]) >= 2

\* C15: running is false until initialize() has returned; when it returns
\* False the thread ends with running false, and the supervisor, the flag and
\* every other worker are as they were; a thread that has ended never polls
\* and its running flag never changes; running becomes true only in the step
\* in which initialize() returns True.
InitFailureIsolated ==
    /\ [](\A w \in Workers : wpc[w] \in {"unstarted", "init"} => ~running[w])
    /\ [][\A w \in Workers :
            /\ (wpc[w] = "init" /\ wpc'[w] # "init" /\ ~ev'.x)
                    => /\ wpc'[w] = "exited"
                       /\ ~running'[w]
                       /\ mainPc' = mainPc
                       /\ shutdown' = shutdown
                       /\ \A v \in Workers \ {w} :
                            /\ wpc'[v] = wpc[v]
                            /\ running'[v] = running[v]
                            /\ offset'[v] = offset[v]
                            /\ simulations'[v] = simulations[v]
                            /\ tasks'[v] = tasks[v]
            /\ wpc[w] = "exited"
                    => (wpc'[w] = "exited" /\ running'[w] = running[w])
            /\ (~running[w] /\ running'[w])
                    => (wpc[w] = "init" /\ ev'.op = "initialize" /\ ev'.x)]_vars

\* C15 witness: the first worker's initialize() failed (its thread has ended
\* with the flag clear and nothing polled); the supervisor started the
\* second worker, which has dispatched an update and is fetching again.
InitFailedOtherPolls ==
    /\ ~shutdown
    /\ mainPc = "run"
    /\ wpc[1] = "exited"
    /\ ~running[1]
    /\ offset[1] = 0
    /\ dispatched[1] = <<>>
    /\ wpc[2] = "fetch"
    /\ running[2]
    /\ dispatched[2] # <<>>

\* C16: the edit is issued only in the step in which the placeholder send
\* returned a message, with that message's id as its target, and the target
\* stays the same while the edit is in flight; a placeholder send that
\* raises ends the handler without an edit; no step of the ping handler
\* changes the worker's registry or tasks.
PingEditTargetsSentMessage ==
    [][\A w \in Workers :
         /\ (wpc'[w] = "ping_edit" /\ wpc[w] # "ping_edit")
                => /\ wpc[w] = "ping_send"
                   /\ ev'.op = "ping_sent"
                   /\ ev'.w = w
                   /\ ev'.x \in MsgIds
                   /\ loc'[w].mid = ev'.x
         /\ (wpc[w] = "ping_edit" /\ wpc'[w] = "ping_edit")
                => loc'[w] = loc[w]
         /\ (wpc[w] = "ping_edit" /\ wpc'[w] # "ping_edit")
                => (ev'.op = "ping_edit" /\ ev'.x = loc[w].mid)
         /\ (wpc[w] = "ping_send" /\ wpc'[w] \notin {"ping_send", "ping_edit"})
                => (ev'.op = "ping_fail" /\ ev'.w = w)
         /\ ((wpc[w] \in {"ping_send", "ping_edit"} \/ wpc'[w] = "ping_send")
                /\ wpc'[w] # wpc[w])
                => /\ simulations'[w] = simulations[w]
                   /\ tasks'[w] = tasks[w]]_vars

\* C16 witness: the edit of the second message id has returned, in a worker
\* with a live registered task.
PingEditedSecondMessage ==
    /\ ev.op = "ping_edit"
    /\ ev.x = 8
    /\ \E c \in Chats :
            /\ simulations[ev.w][c] # NoTask
            /\ Live(tasks[ev.w][simulations[ev.w][c]])

\* C17: every task that is live and has no cancellation requested is the
\* task the worker's registry holds for its chat.
LiveTaskIsRegistered ==
    \A w \in Workers : \A i \in TaskIds(w) :
        (Live(tasks[w][i]) /\ ~tasks[w][i].cancel)
            => simulations[w][tasks[w][i].chat] = i

\* C18: no step lowers a worker's offset, and the only step that changes it
\* is the for loop of the worker's poll_updates taking an update.
OffsetNeverDecreases ==
    [][\A w \in Workers :
         /\ offset'[w] >= offset[w]
         /\ offset'[w] # offset[w]
                => /\ wpc[w] = "batch"
                   /\ ev'.op = "dispatch"
                   /\ ev'.w = w
                   /\ offset'[w] = ev'.x.id + 1]_vars

\* C18 witness: the offset has moved from 0 past the first update and has
\* just moved again, to one past the update taken now.
OffsetAdvancedAgain ==
    /\ ev.op = "dispatch"
    /\ Len(dispatched[ev.w]) >= 2
    /\ offset[ev.w] = ev.x.id + 1
    /\ offset[ev.w] >= FirstUpdateId + 2

\* C19: from a state in which the shutdown flag is set, no step puts a
\* task into a send_chat_action call (the calls in flight are those that
\* were in flight before the step), and a task made while the flag was set
\* is never in a send: it is waiting for its first step or has ended.
NoNewSendAfterShutdown ==
    /\ [](\A w \in Workers : \A i \in TaskIds(w) :
            tasks[w][i].late => tasks[w][i].st \in {"created", "done"})
    /\ [][shutdown =>
            \A w \in Workers : \A i \in 1..Len(tasks'[w]) :
                tasks'[w][i].st = "sending"
                    => (i \in TaskIds(w) /\ tasks[w][i].st = "sending")]_vars

\* C19 witness: a task made by a /start handled after the flag was set found
\* its loop condition false at its first step and ended.
LateTaskEndedUnsent ==
    /\ shutdown
    /\ ev.op = "task_exit"
    /\ ev.x = "loop"
    /\ tasks[ev.w][ev.task].late
    /\ tasks[ev.w][ev.task].st = "done"

\* C20: a step of one worker (a dispatch, a handler step, a task step or
\* exit) or of the supervisor leaves every other worker's registry, tasks,
\* offset and running flag unchanged; and a worker's registry changes only
\* in a step of its start handler, of its stop handler, or of one of its own
\* tasks ending.
WorkersIndependent ==
    [][\A w \in Workers :
         /\ ev'.w # w
                => /\ simulations'[w] = simulations[w]
                   /\ tasks'[w] = tasks[w]
                   /\ offset'[w] = offset[w]
                   /\ running'[w] = running[w]
         /\ simulations'[w] # simulations[w]
                => /\ ev'.w = w
                   /\ \/ ev'.op = "start_return"
                      \/ ev'.op = "dispatch" /\ ev'.x.kind = "end"
                      \/ ev'.op = "task_exit"]_vars

\* C20 witness: the first worker's start handler has just registered a task
\* while the second worker, which has taken an update, holds a live
\* registered task of its own for the same chat id.
StartBesideBusyWorker ==
    /\ ev.op = "start_return"
    /\ ev.w = 1
    /\ ev.task # NoTask
    /\ simulations[1][ev.chat] = ev.task
    /\ offset[2] > 0
    /\ running[2]
    /\ simulations[2][ev.chat] # NoTask
    /\ Live(tasks[2][simulations[2][ev.chat]])

====
